---- MODULE Spec2Model ----
(***************************************************************************)
(* Model of the incremental ingestion core of SI206_Finalproject:          *)
(*   finalprj.py               chunked weather / air-quality ingestion     *)
(*   newsapi_data_analysis.py  paginated news ingestion                    *)
(* Both scripts write to outputs/final_project.db but to disjoint tables,  *)
(* and each keeps its own counter file, so a behaviour runs one of the     *)
(* two scripts, any number of times.                                       *)
(*                                                                         *)
(* Scaling: the city list and the chunk size (100 and 25 in the source)    *)
(* and the country dictionary (5 entries) are scaled down; REAL columns    *)
(* hold integers; an AVG() is kept in hundredths, which is what the        *)
(* reports print with :.2f (1500 stands for "15.00").  The chart and       *)
(* report files are write-only for both scripts and are not state here:    *)
(* the rows handed to the writers and renderers are.                       *)
(***************************************************************************)
EXTENDS Integers, Naturals, Sequences, FiniteSets, TLC

\* --------------------------------------------------------------- bounds
\* len(CITIES): 100 in the source.
NumCities == 2
\* chunk_size: 25 in the source.
chunk_size == 1
\* Process invocations of finalprj.py that are modelled.
MaxRuns == 3
\* len(country_queries): 5 in the source.
NumCountries == 2
\* Articles in one NewsAPI response (pageSize is 5 in the source).
MaxArticles == 2
\* Largest page number that is still run.
MaxPage == 2

\* ----------------------------------------------------- program constants
\* The counter file does not exist.
NoFile == -1
\* articles[:5]
ROW_LIMIT == 5
\* response.status_code == 200
HTTP_OK == 200

\* The status of a response: 200, or a failure such as 404.
StatusCodes == {HTTP_OK, 404}

CITIES == [n \in 1..NumCities |-> n]

\* What the weather endpoint can answer for a city (units=metric).
WeatherResponses ==
  { [temp |-> 10, humidity |-> 50, wind_speed |-> 3, description |-> "clear sky", dt |-> 1],
    [temp |-> 20, humidity |-> 70, wind_speed |-> 5, description |-> "light rain", dt |-> 2] }

\* What the air-pollution endpoint can answer for a coordinate pair.
AirResponses ==
  { [aqi |-> 2, pm2_5 |-> 5, pm10 |-> 8, co |-> 200, no2 |-> 4, o3 |-> 60, so2 |-> 1, dt |-> 1],
    [aqi |-> 3, pm2_5 |-> 9, pm10 |-> 14, co |-> 300, no2 |-> 7, o3 |-> 90, so2 |-> 2, dt |-> 2] }

VARIABLES
  \* outputs/final_project.db, finalprj.py tables
  WeatherDescriptions, Weather, AirQuality,
  \* outputs/run_count.txt
  run_count_file,
  \* finalprj.py: position and locals of the running process
  pc, run_count, start_index, end_index, city_subset, i, status,
  weather_results, air_quality_results,
  \* history (not program state): the watched city and the values stored for
  \* it, the cities requested and the functions executed by the current run,
  \* the number of invocations, whether every invocation so far ran to its end
  watch, wHist, aHist, fetched, executed, runNo, clean,
  \* which of the two scripts this behaviour runs
  script,
  \* api_key.txt exists; run_number.txt
  api_key_file, run_number_file,
  \* outputs/final_project.db, newsapi_data_analysis.py tables
  sources, countries, articles,
  \* newsapi_data_analysis.py: position and locals of the running process
  npc, RUN_NUMBER, k, nstatus, country_id, pending, advanced_data,
  \* history (not program state): per (source, title) pair the published date
  \* and country of its first occurrence, and whether a later occurrence
  \* carried another date or country
  firstSeen

dbVars == <<WeatherDescriptions, Weather, AirQuality>>
localVars == <<run_count, start_index, end_index, city_subset, i, status,
               weather_results, air_quality_results>>
histVars == <<watch, wHist, aHist, fetched, executed, runNo, clean>>
weatherVars == <<dbVars, run_count_file, pc, localVars, histVars>>
newsDb == <<sources, countries, articles>>
newsLocals == <<RUN_NUMBER, k, nstatus, country_id, pending, advanced_data>>
newsVars == <<api_key_file, run_number_file, newsDb, npc, newsLocals, firstSeen>>
vars == <<script, weatherVars, newsVars>>

\* ----------------------------------------------------------- helpers
Max(S) == CHOOSE x \in S : \A y \in S : y <= x
Min2(a, b) == IF a <= b THEN a ELSE b
Range(s) == {s[n] : n \in DOMAIN s}

\* The sum of the values of a function with a finite domain.
RECURSIVE SumFn(_)
SumFn(f) ==
  IF DOMAIN f = {} THEN 0
  ELSE LET r == CHOOSE x \in DOMAIN f : TRUE
       IN f[r] + SumFn([x \in DOMAIN f \ {r} |-> f[x]])

\* SQL AVG over a non-empty group, rounded to hundredths as :.2f prints it.
Avg(f) ==
  (200 * SumFn(f) + Cardinality(DOMAIN f)) \div (2 * Cardinality(DOMAIN f))

\* The rowid SQLite assigns to a new row (no row is ever deleted).
NextId(table) == IF table = {} THEN 1 ELSE Max({r.id : r \in table}) + 1

\* Python list[start:end] on a 1-based sequence; the end is clamped.
Slice(s, from, to) == SubSeq(s, from + 1, Min2(to, Len(s)))

\* The last three values stored for the watched city.
Remember(h, v) == IF Len(h) >= 3 THEN Append(Tail(h), v) ELSE Append(h, v)

\* --------------------------------------------------------- finalprj.py
\* get_or_create_id(conn, table, column, value): the id returned and the
\* table afterwards.
get_or_create_id(table, value) ==
  IF \E r \in table : r.value = value
  THEN [id |-> (CHOOSE r \in table : r.value = value).id, table |-> table]
  ELSE [id |-> NextId(table),
        table |-> table \cup {[id |-> NextId(table), value |-> value]}]

WeatherRow(id, city, d, desc_id) ==
  [id |-> id, city |-> city, temperature |-> d.temp, humidity |-> d.humidity,
   wind_speed |-> d.wind_speed, weather_description_id |-> desc_id,
   timestamp |-> d.dt]

\* A plain INSERT into a table without the UNIQUE(city) conflict clause.
InsertWeather(table, city, d, desc_id) ==
  table \cup {WeatherRow(NextId(table), city, d, desc_id)}

\* INSERT INTO Weather ... ON CONFLICT(city) DO UPDATE SET ...
UpsertWeather(table, city, d, desc_id) ==
  IF \E r \in table : r.city = city
  THEN {IF r.city = city THEN WeatherRow(r.id, city, d, desc_id) ELSE r : r \in table}
  ELSE table \cup {WeatherRow(NextId(table), city, d, desc_id)}

AirRow(id, city, d) ==
  [id |-> id, city |-> city, aqi |-> d.aqi, pm2_5 |-> d.pm2_5, pm10 |-> d.pm10,
   co |-> d.co, no2 |-> d.no2, o3 |-> d.o3, so2 |-> d.so2, timestamp |-> d.dt]

\* ON CONFLICT(city) DO NOTHING: the first stored values are kept.
UpsertKeepAir(table, city, d) ==
  IF \E r \in table : r.city = city
  THEN table
  ELSE table \cup {AirRow(NextId(table), city, d)}

\* INSERT INTO AirQuality ... ON CONFLICT(city) DO UPDATE SET ...
UpsertAirQuality(table, city, d) ==
  IF \E r \in table : r.city = city
  THEN {IF r.city = city THEN AirRow(r.id, city, d) ELSE r : r \in table}
  ELSE table \cup {AirRow(NextId(table), city, d)}

\* SELECT city, AVG(temperature), AVG(humidity) FROM Weather GROUP BY city
process_weather_data(table) ==
  { LET g == {r \in table : r.city = c}
    IN [city |-> c, avg_temp |-> Avg([r \in g |-> r.temperature]),
        avg_humidity |-> Avg([r \in g |-> r.humidity])]
    : c \in {r.city : r \in table} }

\* SELECT city, AVG(pm2_5), aqi FROM AirQuality GROUP BY city
\* aqi is a bare column: SQLite takes it from some row of the group, so
\* every choice of one row per group is a possible result.
process_air_quality_data(table) ==
  LET cs == {r.city : r \in table}
      picks == {p \in [cs -> table] : \A c \in cs : p[c].city = c}
  IN { { [city |-> c,
          avg_pm2_5 |-> Avg([r \in {x \in table : x.city = c} |-> r.pm2_5]),
          aqi |-> p[c].aqi] : c \in cs } : p \in picks }

\* The counter is advanced only when the slice stored a weather row.
NextRunCountIfStored(n) ==
  IF \E r \in Weather : r.city \in Range(city_subset) THEN n + 1 ELSE n

\* run_count += 1
NextRunCount(n) == n + 1

\* The slice always starts at the head of the list.
CitySubsetFromHead(from, to) == Slice(CITIES, 0, to)

\* city_subset = CITIES[start_index:end_index]
CitySubset(from, to) == Slice(CITIES, from, to)

\* The values a new process starts with; None is the empty set or sequence.
InitLocals ==
  /\ run_count = 0
  /\ start_index = 0
  /\ end_index = 0
  /\ city_subset = <<>>
  /\ i = 1
  /\ status = HTTP_OK
  /\ weather_results = {}
  /\ air_quality_results = {}

InitWeatherVars ==
  /\ WeatherDescriptions = {}
  /\ Weather = {}
  /\ AirQuality = {}
  /\ run_count_file = NoFile
  /\ pc = "init"
  /\ InitLocals
  /\ wHist = <<>>
  /\ aHist = <<>>
  /\ fetched = {}
  /\ executed = {}
  /\ runNo = 0
  /\ clean = TRUE

Reports == {"process_weather_data", "process_air_quality_data",
            "visualize_weather_data", "visualize_aqi_categories"}

\* Lines 268-293: a new process; setup_database (CREATE TABLE IF NOT EXISTS
\* keeps the rows), read the counter, compute the slice.
Start ==
  /\ script = "finalprj"
  /\ pc \in {"init", "exited", "crashed"}
  /\ runNo < MaxRuns
  /\ runNo' = runNo + 1
  /\ run_count' = IF run_count_file = NoFile THEN 0 ELSE run_count_file
  /\ start_index' = run_count' * chunk_size
  /\ end_index' = start_index' + chunk_size
  /\ IF start_index' >= Len(CITIES)
     THEN pc' = "report" /\ city_subset' = <<>>
     ELSE pc' = "fetch_weather" /\ city_subset' = CitySubset(start_index', end_index')
  /\ i' = 1
  /\ status' = HTTP_OK
  /\ weather_results' = {}
  /\ air_quality_results' = {}
  /\ fetched' = {}
  /\ executed' = {}
  /\ UNCHANGED <<dbVars, run_count_file, watch, wHist, aHist, clean, script, newsVars>>

\* One iteration of the loop of fetch_weather_data.
FetchWeatherStep ==
  /\ pc = "fetch_weather"
  /\ \E code \in StatusCodes, data \in WeatherResponses :
       LET city == city_subset[i]
           g == get_or_create_id(WeatherDescriptions, data.description)
       IN /\ status' = code
          /\ IF code = HTTP_OK
             THEN /\ WeatherDescriptions' = g.table
                  /\ Weather' = UpsertWeather(Weather, city, data, g.id)
                  /\ wHist' = IF city = watch THEN Remember(wHist, data) ELSE wHist
             ELSE UNCHANGED <<WeatherDescriptions, Weather, wHist>>
          /\ fetched' = fetched \cup {city}
  /\ IF i = Len(city_subset)
     THEN pc' = "fetch_air" /\ i' = 1
     ELSE pc' = pc /\ i' = i + 1
  /\ UNCHANGED <<AirQuality, run_count_file, run_count, start_index, end_index,
                 city_subset, weather_results, air_quality_results,
                 watch, aHist, executed, runNo, clean, script, newsVars>>

\* The air-pollution response is stored whatever the weather request of
\* the same iteration answered.
AirStoredOnAirStatus(wcode, acode) == acode = HTTP_OK

\* Lines 155 and 163: the nested status tests of fetch_air_quality_data.
AirStored(wcode, acode) == wcode = HTTP_OK /\ acode = HTTP_OK

\* One iteration of the loop of fetch_air_quality_data: the weather request
\* for the coordinates, then the air-pollution request.  status is the
\* status of the last response received: the air-pollution request is made
\* only after a 200 of the weather request.
FetchAirStep ==
  /\ pc = "fetch_air"
  /\ \E wcode \in StatusCodes, acode \in StatusCodes, data \in AirResponses :
       LET city == city_subset[i]
       IN /\ status' = IF wcode = HTTP_OK THEN acode ELSE wcode
          /\ IF AirStored(wcode, acode)
             THEN /\ AirQuality' = UpsertAirQuality(AirQuality, city, data)
                  /\ aHist' = IF city = watch THEN Remember(aHist, data) ELSE aHist
             ELSE UNCHANGED <<AirQuality, aHist>>
          /\ fetched' = fetched \cup {city}
  /\ IF i = Len(city_subset)
     THEN pc' = "post" /\ i' = 1
     ELSE pc' = pc /\ i' = i + 1
  /\ UNCHANGED <<WeatherDescriptions, Weather, run_count_file, run_count, start_index,
                 end_index, city_subset, weather_results, air_quality_results,
                 watch, wHist, executed, runNo, clean, script, newsVars>>

\* An uncaught exception ends the process before line 304: requests.get
\* raises (no connection), or a report or chart cannot be written.  Every
\* upsert so far is committed; the counter is not written; the locals of
\* the process are gone.
Crash ==
  /\ pc \in {"fetch_weather", "fetch_air", "post"}
  /\ clean' = FALSE
  /\ pc' = "crashed"
  /\ run_count' = 0
  /\ start_index' = 0
  /\ end_index' = 0
  /\ city_subset' = <<>>
  /\ i' = 1
  /\ status' = HTTP_OK
  /\ weather_results' = {}
  /\ air_quality_results' = {}
  /\ fetched' = {}
  /\ UNCHANGED <<dbVars, run_count_file,
                 watch, wHist, aHist, executed, runNo, script, newsVars>>

\* process_*_data and visualize_*: lines 286-289 and 297-300.
Report ==
  /\ weather_results' = process_weather_data(Weather)
  /\ air_quality_results' \in process_air_quality_data(AirQuality)
  /\ executed' = Reports

\* Lines 283-291: every city is done; report on the stored data and exit.
ReportOnly ==
  /\ pc = "report"
  /\ Report
  /\ pc' = "exited"
  /\ UNCHANGED <<dbVars, run_count_file, run_count, start_index, end_index,
                 city_subset, i, status, watch, wHist, aHist, fetched, runNo, clean, script, newsVars>>

\* Lines 297-307: report, then advance the counter and save it.
ReportAndAdvance ==
  /\ pc = "post"
  /\ Report
  /\ run_count' = NextRunCount(run_count)
  /\ run_count_file' = run_count'
  /\ pc' = "exited"
  /\ UNCHANGED <<dbVars, start_index, end_index, city_subset, i, status,
                 watch, wHist, aHist, fetched, runNo, clean, script, newsVars>>

\* ------------------------------------------------ newsapi_data_analysis.py
country_queries ==
  SubSeq(<<"USA", "UK", "Canada", "India", "Australia">>, 1, NumCountries)

\* A missing publishedAt: article.get('publishedAt', None), stored as NULL.
NULL == "NULL"
Sunday == "2024-12-01T10:00:00Z"
Monday == "2024-12-02T10:00:00Z"

\* The articles NewsAPI can return: one (source, title) pair under two
\* dates, a second title of the same source, the same title elsewhere.
ArticlePool ==
  { [source |-> "BBC News", title |-> "Floods", publishedAt |-> Sunday],
    [source |-> "BBC News", title |-> "Floods", publishedAt |-> Monday],
    [source |-> "BBC News", title |-> "Budget", publishedAt |-> NULL],
    [source |-> "CNN", title |-> "Floods", publishedAt |-> Sunday] }

Pairs == {[source |-> a.source, title |-> a.title] : a \in ArticlePool}

\* len(response.json()['articles']) of a 200 response.
ResponseLengths == 0..MaxArticles

\* The value written back to run_number.txt at line 27.
SameRunNumber(n) == n

NextRunNumber(n) == n + 1

\* Lines 21-22 replaced by a default of 1 for a missing counter file.
DefaultRunNumber(file) == IF file = NoFile THEN 1 ELSE file

\* Lines 18-22: int(file1.read().strip()); NoFile when open() raises.
ReadRunNumber(file) == file

\* The status code is not looked at.
FetchArticlesAnyStatus(code, n) == n

\* fetch_articles: the number of articles handed to insert_data, those of a
\* 200 response and none otherwise.
fetch_articles(code, n) == IF code = HTTP_OK THEN n ELSE 0

\* get_or_create_id of newsapi_data_analysis.py.
AlwaysCreateId(table, value) ==
  [id |-> NextId(table),
   table |-> table \cup {[id |-> NextId(table), value |-> value]}]

news_get_or_create_id(table, value) ==
  IF \E r \in table : r.value = value
  THEN [id |-> (CHOOSE r \in table : r.value = value).id, table |-> table]
  ELSE [id |-> NextId(table),
        table |-> table \cup {[id |-> NextId(table), value |-> value]}]

ArticleRow(id, sid, a, cid) ==
  [id |-> id, source_id |-> sid, title |-> a.title,
   published_date |-> a.publishedAt, country_id |-> cid]

\* A duplicate overwrites the stored row (the policy of the city tables).
StoreArticleOverwrite(table, sid, a, cid) ==
  IF \E r \in table : r.source_id = sid /\ r.title = a.title
  THEN {IF r.source_id = sid /\ r.title = a.title
        THEN ArticleRow(r.id, sid, a, cid) ELSE r : r \in table}
  ELSE table \cup {ArticleRow(NextId(table), sid, a, cid)}

\* Lines 112-119: SELECT id FROM articles WHERE source_id = ? AND title = ?;
\* a hit skips the article, otherwise it is inserted.
StoreArticle(table, sid, a, cid) ==
  IF \E r \in table : r.source_id = sid /\ r.title = a.title
  THEN table
  ELSE table \cup {ArticleRow(NextId(table), sid, a, cid)}

\* strftime('%w', published_date)
DayOfWeek(d) == IF d = Sunday THEN "0" ELSE "1"

\* query_advanced_data: article counts by country and day of the week.
query_advanced_data(cntTable, srcTable, artTable) ==
  LET joined == {r \in artTable :
                   /\ r.published_date # NULL
                   /\ \E c \in cntTable : c.id = r.country_id
                   /\ \E x \in srcTable : x.id = r.source_id}
      name(r) == (CHOOSE c \in cntTable : c.id = r.country_id).value
      key(r) == <<name(r), DayOfWeek(r.published_date)>>
  IN { [country_name |-> g[1],
        article_count |-> Cardinality({r \in joined : key(r) = g}),
        day_of_week |-> g[2]] : g \in {key(r) : r \in joined} }

\* The history of first occurrences after article a of country_name.
Note(seen, a, country_name) ==
  LET p == [source |-> a.source, title |-> a.title]
  IN [seen EXCEPT ![p] =
        IF seen[p].known
        THEN [seen[p] EXCEPT !.again = @ \/ seen[p].date # a.publishedAt
                                         \/ seen[p].country # country_name]
        ELSE [known |-> TRUE, date |-> a.publishedAt,
              country |-> country_name, again |-> FALSE]]

InitNewsLocals ==
  /\ RUN_NUMBER = 0
  /\ k = 1
  /\ nstatus = HTTP_OK
  /\ country_id = 0
  /\ pending = 0
  /\ advanced_data = {}

InitNewsVars ==
  /\ sources = {}
  /\ countries = {}
  /\ articles = {}
  /\ npc = "init"
  /\ InitNewsLocals
  /\ firstSeen = [p \in Pairs |->
                   [known |-> FALSE, date |-> NULL, country |-> NULL, again |-> FALSE]]

\* Lines 10-29 and 170: a new process; load the key and the counter (either
\* file missing raises FileNotFoundError), write the counter back, then
\* setup_database.
NewsStart ==
  /\ script = "newsapi_data_analysis"
  /\ npc \in {"init", "done", "aborted", "crashed"}
  /\ run_number_file <= MaxPage
  /\ k' = 1
  /\ nstatus' = HTTP_OK
  /\ country_id' = 0
  /\ pending' = 0
  /\ advanced_data' = {}
  /\ IF ~api_key_file \/ ReadRunNumber(run_number_file) = NoFile
     THEN /\ npc' = "aborted"
          /\ RUN_NUMBER' = 0
          /\ UNCHANGED run_number_file
     ELSE /\ RUN_NUMBER' = ReadRunNumber(run_number_file)
          /\ run_number_file' = NextRunNumber(RUN_NUMBER')
          /\ npc' = "loop"
  /\ UNCHANGED <<script, weatherVars, api_key_file, newsDb, firstSeen>>

\* Lines 182-185 and 98-104: the next country: fetch_articles(query), then
\* insert_data starts: the country's id, and the articles[:5] to go through.
\* The articles themselves are drawn one by one in NewsInsert.
NewsFetch ==
  /\ npc = "loop"
  /\ k <= Len(country_queries)
  /\ \E code \in StatusCodes, n \in ResponseLengths :
       LET c == news_get_or_create_id(countries, country_queries[k])
       IN /\ nstatus' = code
          /\ countries' = c.table
          /\ country_id' = c.id
          /\ pending' = Min2(ROW_LIMIT, fetch_articles(code, n))
  /\ npc' = "insert"
  /\ UNCHANGED <<script, weatherVars, api_key_file, run_number_file, sources,
                 articles, RUN_NUMBER, k, advanced_data, firstSeen>>

\* Lines 104-119: one iteration of the loop of insert_data.
NewsInsert ==
  /\ npc = "insert"
  /\ pending > 0
  /\ \E a \in ArticlePool :
       LET g == news_get_or_create_id(sources, a.source)
       IN /\ sources' = g.table
          /\ articles' = StoreArticle(articles, g.id, a, country_id)
          /\ firstSeen' = Note(firstSeen, a, country_queries[k])
  /\ pending' = pending - 1
  /\ UNCHANGED <<script, weatherVars, api_key_file, run_number_file, countries,
                 npc, RUN_NUMBER, k, nstatus, country_id, advanced_data>>

\* Lines 121 and 188: the loop of insert_data is over; commit, sleep, go on
\* to the next country.
NewsCommit ==
  /\ npc = "insert"
  /\ pending = 0
  /\ k' = k + 1
  /\ npc' = "loop"
  /\ UNCHANGED <<script, weatherVars, api_key_file, run_number_file, newsDb,
                 RUN_NUMBER, nstatus, country_id, pending, advanced_data, firstSeen>>

\* requests.get raises in fetch_articles: the process ends; insert_data has
\* committed every earlier country.
NewsCrash ==
  /\ npc = "loop"
  /\ k <= Len(country_queries)
  /\ npc' = "crashed"
  /\ UNCHANGED <<script, weatherVars, api_key_file, run_number_file, newsDb,
                 newsLocals, firstSeen>>

\* Lines 190-201: query, CSV, chart, close.
NewsFinish ==
  /\ npc = "loop"
  /\ k > Len(country_queries)
  /\ advanced_data' = query_advanced_data(countries, sources, articles)
  /\ npc' = "done"
  /\ UNCHANGED <<script, weatherVars, api_key_file, run_number_file, newsDb,
                 RUN_NUMBER, k, nstatus, country_id, pending, firstSeen>>

\* ------------------------------------------------------- specification
Scripts == {"finalprj", "newsapi_data_analysis"}

\* One of the two scripts is run, any number of times.  The tables and the
\* counter file of the other script stay as they are.
Init ==
  /\ script \in Scripts
  /\ InitWeatherVars
  /\ InitNewsVars
  /\ IF script = "finalprj"
     THEN /\ watch \in Range(CITIES)
          /\ api_key_file = TRUE
          /\ run_number_file = 1
     ELSE /\ watch = 1
          /\ api_key_file \in BOOLEAN
          /\ run_number_file \in {NoFile, 1}

Next ==
  \/ Start
  \/ FetchWeatherStep
  \/ FetchAirStep
  \/ Crash
  \/ ReportOnly
  \/ ReportAndAdvance
  \/ NewsStart
  \/ NewsFetch
  \/ NewsInsert
  \/ NewsCommit
  \/ NewsCrash
  \/ NewsFinish

Spec == Init /\ [][Next]_vars

\* ------------------------------------------------------------ properties
Last(h) == h[Len(h)]
RowsOf(table, c) == {r \in table : r.city = c}

\* C1: each city-keyed table holds at most one row per city, and after an
\* upsert of a city its one row carries every field of the values upserted
\* last (here: for the watched city, which is any city).
C1_UpsertKeepsOneRowWithLastValues ==
  /\ \A c \in Range(CITIES) :
       /\ Cardinality(RowsOf(Weather, c)) <= 1
       /\ Cardinality(RowsOf(AirQuality, c)) <= 1
  /\ wHist # <<>> =>
       /\ Cardinality(RowsOf(Weather, watch)) = 1
       /\ \A r \in RowsOf(Weather, watch) :
            /\ r.temperature = Last(wHist).temp
            /\ r.humidity = Last(wHist).humidity
            /\ r.wind_speed = Last(wHist).wind_speed
            /\ r.timestamp = Last(wHist).dt
            /\ \E x \in WeatherDescriptions :
                 /\ x.id = r.weather_description_id
                 /\ x.value = Last(wHist).description
  /\ aHist # <<>> =>
       /\ Cardinality(RowsOf(AirQuality, watch)) = 1
       /\ \A r \in RowsOf(AirQuality, watch) :
            /\ r.aqi = Last(aHist).aqi
            /\ r.pm2_5 = Last(aHist).pm2_5
            /\ r.pm10 = Last(aHist).pm10
            /\ r.co = Last(aHist).co
            /\ r.no2 = Last(aHist).no2
            /\ r.o3 = Last(aHist).o3
            /\ r.so2 = Last(aHist).so2
            /\ r.timestamp = Last(aHist).dt

\* The watched city was upserted twice in a row with different values, in
\* both tables.
C1_Witness ==
  /\ Len(wHist) >= 2
  /\ wHist[Len(wHist)] # wHist[Len(wHist) - 1]
  /\ Len(aHist) >= 2
  /\ aHist[Len(aHist)] # aHist[Len(aHist) - 1]

RowsOfPair(p) ==
  {r \in articles : /\ r.title = p.title
                    /\ \E x \in sources : x.id = r.source_id /\ x.value = p.source}

\* C2: a (source, title) pair that insert_data has processed has exactly one
\* row in articles, with the published_date and the country of its first
\* occurrence; a pair never processed has none.
C2_DuplicateArticleIsSkipped ==
  \A p \in Pairs :
    IF firstSeen[p].known
    THEN /\ Cardinality(RowsOfPair(p)) = 1
         /\ \A r \in RowsOfPair(p) :
              /\ r.published_date = firstSeen[p].date
              /\ \E c \in countries :
                   c.id = r.country_id /\ c.value = firstSeen[p].country
    ELSE RowsOfPair(p) = {}

\* A pair came a second time with another date or country and the loop has
\* gone past it.
C2_Witness ==
  /\ npc = "done"
  /\ \E p \in Pairs : firstSeen[p].again

\* Two calls in a row with the same value: the same id, no write by the
\* second call, one row for the value.
TwiceTheSame(first, second, v) ==
  /\ second.id = first.id
  /\ second.table = first.table
  /\ Cardinality({x \in first.table : x.value = v}) = 1
  /\ \E x \in first.table : x.value = v /\ x.id = first.id

\* get_or_create_id of finalprj.py, twice on WeatherDescriptions.
TwiceInFinalprj(table, v) ==
  TwiceTheSame(get_or_create_id(table, v),
               get_or_create_id(get_or_create_id(table, v).table, v), v)

\* get_or_create_id of newsapi_data_analysis.py, twice on a lookup table.
TwiceInNews(table, v) ==
  TwiceTheSame(news_get_or_create_id(table, v),
               news_get_or_create_id(news_get_or_create_id(table, v).table, v), v)

OneRowPerValue(table) ==
  \A x, y \in table : (x.value = y.value \/ x.id = y.id) => x = y

\* C3: in every lookup table a value has one row and an id has one value,
\* and get_or_create_id called twice with a value returns the same id both
\* times, the second call writing nothing.
C3_GetOrCreateIdIsIdempotent ==
  IF script = "finalprj"
  THEN /\ OneRowPerValue(WeatherDescriptions)
       /\ \A d \in WeatherResponses :
            TwiceInFinalprj(WeatherDescriptions, d.description)
  ELSE /\ OneRowPerValue(sources)
       /\ OneRowPerValue(countries)
       /\ \A a \in ArticlePool : TwiceInNews(sources, a.source)
       /\ \A n \in DOMAIN country_queries :
            TwiceInNews(countries, country_queries[n])

\* Two articles of one source are stored: the source was looked up twice and
\* the second lookup returned the id of the first.
C3_Witness ==
  /\ Cardinality(sources) = 2
  /\ \E r1, r2 \in articles : r1.id # r2.id /\ r1.source_id = r2.source_id

\* The cities at the 0-based indices [chunk_size*(n-1), chunk_size*n).
ExpectedSlice(n) ==
  {CITIES[m] : m \in {x \in 1..Len(CITIES) :
                        chunk_size * (n - 1) < x /\ x <= chunk_size * n}}

\* C4: starting without a counter file, as long as every run ran to its end,
\* the n-th run requests the cities of the n-th chunk and no others; a run
\* past the last chunk requests no city and writes no row, and every run
\* that ends has executed both process_* and both visualize_* functions.
C4_RunsFetchConsecutiveChunks ==
  /\ [](script = "finalprj" /\ clean /\ runNo >= 1 =>
          /\ fetched \subseteq ExpectedSlice(runNo)
          /\ pc = "exited" =>
               fetched = ExpectedSlice(runNo) /\ executed = Reports)
  /\ [][script = "finalprj" /\ clean' /\ ExpectedSlice(runNo') = {}
          => UNCHANGED dbVars]_vars

\* The run after the last chunk has ended: nothing requested, the reports
\* made from the rows stored by the earlier runs.
C4_Witness ==
  /\ script = "finalprj"
  /\ clean
  /\ pc = "exited"
  /\ ExpectedSlice(runNo) = {}
  /\ fetched = {}
  /\ executed = Reports
  /\ weather_results # {}
  /\ air_quality_results # {}

\* C5: from the moment newsapi_data_analysis.py has loaded its counter n,
\* before the first fetch and until the process ends (done or crashed),
\* run_number.txt holds n + 1.
C5_PageCounterAdvancesBeforeFetch ==
  (script = "newsapi_data_analysis" /\ npc \in {"loop", "insert", "done", "crashed"})
    => run_number_file = RUN_NUMBER + 1

\* A run ended in which a fetch failed and no article was ever stored, and
\* the counter moved from 1 to 2.
C5_Witness ==
  /\ npc = "done"
  /\ nstatus # HTTP_OK
  /\ articles = {}
  /\ RUN_NUMBER = 1
  /\ run_number_file = 2

\* C6: a run of finalprj.py whose slice start is inside the list ends with
\* run_count.txt = (the counter it read) + 1; the counter it read is
\* start_index / chunk_size.
C6_ChunkCounterAdvancesByOne ==
  (script = "finalprj" /\ pc = "exited" /\ start_index < Len(CITIES))
    => /\ run_count_file * chunk_size = start_index + chunk_size
       /\ run_count_file = run_count

\* The first run ended, its counter is 1, and no fetch of it stored a row.
C6_Witness ==
  /\ pc = "exited"
  /\ start_index < Len(CITIES)
  /\ runNo = 1
  /\ Weather = {}
  /\ AirQuality = {}
  /\ run_count_file = 1

\* The step is an iteration of a fetch loop of finalprj.py that ended with a
\* non-200 response.
CityFetchFails ==
  /\ pc \in {"fetch_weather", "fetch_air"}
  /\ pc' # "crashed"
  /\ status' # HTTP_OK

\* The loop of finalprj.py goes on to the next city, or to the next phase
\* after the last city.
CityLoopGoesOn ==
  \/ i < Len(city_subset) /\ i' = i + 1 /\ pc' = pc
  \/ i = Len(city_subset) /\ i' = 1
       /\ pc' = (IF pc = "fetch_weather" THEN "fetch_air" ELSE "post")

\* The step is the fetch of a country that ended with a non-200 response.
NewsFetchFails == npc = "loop" /\ npc' = "insert" /\ nstatus' # HTTP_OK

C8_MissingFileAborts ==
  [][(script = "newsapi_data_analysis" /\ (~api_key_file \/ run_number_file = NoFile))
       => /\ npc' \in {"init", "aborted"}
          /\ UNCHANGED <<api_key_file, run_number_file, newsDb>>]_vars

\* The key is there, the counter file is not, and the process has aborted.
C8_Witness ==
  /\ npc = "aborted"
  /\ api_key_file
  /\ run_number_file = NoFile
  /\ newsDb = <<{}, {}, {}>>

\* C9: at the end of a run, the aqi that process_air_quality_data reports
\* for a city is the aqi of the last air-quality upsert of that city.
C9_ReportedAqiIsLastStored ==
  (script = "finalprj" /\ pc = "exited" /\ aHist # <<>>)
    => /\ \E row \in air_quality_results : row.city = watch
       /\ \A row \in air_quality_results :
            row.city = watch => row.aqi = Last(aHist).aqi

\* Three runs stored the aqi values 2, 2, 3 for the watched city and the
\* report of the third says 3.
C9_Witness ==
  /\ pc = "exited"
  /\ [n \in DOMAIN aHist |-> aHist[n].aqi] = <<2, 2, 3>>
  /\ \E row \in air_quality_results : row.city = watch /\ row.aqi = 3

FirstRecord == CHOOSE d \in WeatherResponses : d.temp = 10 /\ d.humidity = 50
SecondRecord == CHOOSE d \in WeatherResponses : d.temp = 20 /\ d.humidity = 70

\* C10 as stated: after the records (temp 10, humidity 50) and (temp 20,
\* humidity 70) were ingested for a city, process_weather_data reports
\* avg_temp 15.00 and avg_humidity 60.00 for it.
C10_ReportsMeanOfBothRecords ==
  (script = "finalprj" /\ pc = "exited" /\ wHist = <<FirstRecord, SecondRecord>>)
    => \E row \in weather_results :
         row.city = watch /\ row.avg_temp = 1500 /\ row.avg_humidity = 6000

\* C10 amended: after those two records were ingested for a city, in that
\* order, process_weather_data reports avg_temp 20.00 and avg_humidity
\* 70.00 for it; in general it reports the values of the record ingested
\* last, the one row the upsert keeps for the city.
C10_ReportsLastRecord ==
  (script = "finalprj" /\ pc = "exited" /\ wHist # <<>>)
    => /\ \E row \in weather_results : row.city = watch
       /\ \A row \in weather_results :
            row.city = watch =>
              /\ row.avg_temp = 100 * Last(wHist).temp
              /\ row.avg_humidity = 100 * Last(wHist).humidity
              /\ wHist = <<FirstRecord, SecondRecord>> =>
                   row.avg_temp = 2000 /\ row.avg_humidity = 7000

\* Both records were ingested for the watched city and the run has reported.
C10_Witness ==
  /\ pc = "exited"
  /\ wHist = <<FirstRecord, SecondRecord>>
  /\ \E row \in weather_results : row.city = watch /\ row.avg_temp = 2000

Stored(table) == {r.city : r \in table}

\* C11 as stated: every city that has a row in AirQuality also has a row in
\* Weather.
C11_AirQualityRowHasWeatherRow ==
  Stored(AirQuality) \subseteq Stored(Weather)

\* C11 amended: an AirQuality row is written only by an iteration of
\* fetch_air_quality_data in which the iteration's own weather request for
\* the city and then the air-pollution request both returned 200; the row
\* is the city's, and the iteration writes nothing to Weather.  The weather
\* request of that iteration is independent of the one fetch_weather_data
\* made, so a city can have a row in AirQuality and none in Weather.
C11_AirQualityNeedsItsOwnWeatherFetch ==
  [][AirQuality' # AirQuality =>
       /\ pc = "fetch_air"
       /\ status' = HTTP_OK
       /\ Stored(AirQuality') = Stored(AirQuality) \cup {city_subset[i]}
       /\ \A r \in AirQuality : r.city # city_subset[i] => r \in AirQuality'
       /\ UNCHANGED <<Weather, WeatherDescriptions>>]_vars

\* A run without a crash has ended with an AirQuality row for the watched
\* city and no Weather row for it: the request of fetch_weather_data
\* failed, the two requests of fetch_air_quality_data succeeded.
C11_Witness ==
  /\ pc = "exited"
  /\ clean
  /\ watch \in Stored(AirQuality)
  /\ watch \notin Stored(Weather)
  /\ aHist # <<>>
  /\ wHist = <<>>

====
